---- MODULE Spec2Model ----
(***************************************************************************)
(* Model of the AD569x DAC driver (src/src/lib.rs).                        *)
(*                                                                         *)
(* The driver owns an I2C transport and a device address.  Every public    *)
(* method builds a 3-byte frame [command, high, low] and hands it to the   *)
(* transport's write.  The transport is modelled as a recording bus: it    *)
(* appends every write it is asked to do to a log, and answers each write  *)
(* with an outcome ("Ok" or a transport error) chosen by the environment.  *)
(***************************************************************************)
EXTENDS Integers, Sequences, FiniteSets, TLC

VARIABLES
    addr,           \* AdafruitAD569x.addr
    new_addr,       \* the addr argument that was given to new()
    i2c,            \* AdafruitAD569x.i2c: [log, rets] of the recording bus
    call,           \* the last public call: its name, arguments and result
    failed_before   \* TRUE iff a write of an earlier call failed

vars == <<addr, new_addr, i2c, call, failed_before>>

(* ---------------------------------------------------------------------- *)
(* Bounds and input sets                                                   *)
(* ---------------------------------------------------------------------- *)

\* A call is accepted while the bus log holds fewer than MaxWrites writes.
MaxWrites == 2

\* Device addresses given to new(): the two AD569x addresses and one
\* outside the 7-bit range (new() does not validate).
Addresses == {76, 78, 255}

\* 16-bit values given to write_dac / write_update_dac.
Values == {0, 4779, 65535}

\* Errors the transport may report.
TransportErrors == {"NoAcknowledge", "ArbitrationLoss"}

\* Outcome of one transport write.
Outcomes == {"Ok"} \cup TransportErrors

(* ---------------------------------------------------------------------- *)
(* enum Command, enum OperatingMode                                        *)
(* ---------------------------------------------------------------------- *)

NOP == 0
WriteInput == 16
UpdateDAC == 32
WriteDACAndInput == 48
WriteControl == 64

NormalMode == 0
Output1kImpedance == 1
Output100kImpedance == 2
OutputTristate == 3

OperatingMode == {NormalMode, Output1kImpedance, Output100kImpedance, OutputTristate}

(* ---------------------------------------------------------------------- *)
(* u16 arithmetic                                                          *)
(* ---------------------------------------------------------------------- *)

U16 == 65536

\* bool as u16
AsU16(b) == IF b THEN 1 ELSE 0

\* x << n on u16: bits shifted out of the 16-bit word are lost
Shl(x, n) == (x * (2 ^ n)) % U16

\* x >> n on u16
Shr(x, n) == x \div (2 ^ n)

\* bit n of x
Bit(x, n) == (x \div (2 ^ n)) % 2

RECURSIVE OrBits(_, _, _)
OrBits(x, y, n) ==
    IF n = 0 THEN 0
    ELSE (IF (x % 2 = 1) \/ (y % 2 = 1) THEN 1 ELSE 0)
         + 2 * OrBits(x \div 2, y \div 2, n - 1)

\* x | y on u16
BitOr(x, y) == OrBits(x, y, 16)

\* faulty variant of to_be_bytes: least significant byte first
to_le_bytes(data) == <<data % 256, Shr(data, 8) % 256>>

\* u16::to_be_bytes: most significant byte first
to_be_bytes(data) == <<Shr(data, 8) % 256, data % 256>>

(* ---------------------------------------------------------------------- *)
(* The transport (embedded_hal::i2c::I2c::write), as a recording bus       *)
(* ---------------------------------------------------------------------- *)

\* One addressed write: the bus records the address and the bytes, and
\* answers r.
I2cWrite(t, address, bytes, r) ==
    [log  |-> Append(t.log, [addr |-> address, bytes |-> bytes]),
     rets |-> Append(t.rets, r)]

(* ---------------------------------------------------------------------- *)
(* The driver.  Each method takes the transport state t and the outcomes   *)
(* the transport will give, and returns the new transport state and the    *)
(* method's Result ("Ok" or the error).                                    *)
(* ---------------------------------------------------------------------- *)

\* faulty variant of write: a failed write is attempted a second time
write_retry(t, command, data, r) ==
    LET frame == <<command>> \o to_be_bytes(data)
        t1 == I2cWrite(t, addr, frame, r)
    IN  IF r = "Ok" THEN [i2c |-> t1, ret |-> r]
        ELSE [i2c |-> I2cWrite(t1, addr, frame, r), ret |-> r]

\* faulty variant of write: the chip's default address, not self.addr
write_default_addr(t, command, data, r) ==
    [i2c |-> I2cWrite(t, 76, <<command>> \o to_be_bytes(data), r),
     ret |-> r]

\* fn write(&mut self, command, data)
write(t, command, data, r) ==
    [i2c |-> I2cWrite(t, addr, <<command>> \o to_be_bytes(data), r),
     ret |-> r]

\* pub fn write_dac(&mut self, value)
write_dac(t, value, r) == write(t, WriteInput, value, r)

\* faulty variant of update_dac: re-sends the payload of the last frame on the bus
update_dac_staged(t, r) ==
    write(t, UpdateDAC,
          IF t.log = <<>> THEN 0
          ELSE t.log[Len(t.log)].bytes[2] * 256 + t.log[Len(t.log)].bytes[3],
          r)

\* pub fn update_dac(&mut self)
update_dac(t, r) == write(t, UpdateDAC, 0, r)

\* faulty variant of write_update_dac: a WriteInput frame, then an UpdateDAC frame
write_update_dac_two_frames(t, value, r) ==
    LET s1 == write(t, WriteInput, value, r)
    IN  IF s1.ret # "Ok" THEN s1 ELSE write(s1.i2c, UpdateDAC, 0, r)

\* pub fn write_update_dac(&mut self, value)
write_update_dac(t, value, r) == write(t, WriteDACAndInput, value, r)

\* faulty variant of reset: the transport error is discarded
reset_ignore_nak(t, r) ==
    [i2c |-> write(t, WriteControl, 32768, r).i2c, ret |-> "Ok"]

\* faulty variant of reset: the reset bit in the low byte
reset_low_byte(t, r) == write(t, WriteControl, 128, r)

\* pub fn reset(&mut self)
reset(t, r) == write(t, WriteControl, 32768, r)

\* faulty variant of set_mode: gain flag one bit too low
set_mode_gain_bit10(t, mode, enable_ref, gain_2x, r) ==
    write(t, WriteControl,
          BitOr(BitOr(BitOr(0, Shl(mode, 13)), Shl(AsU16(enable_ref), 12)),
                Shl(AsU16(gain_2x), 10)),
          r)

\* pub fn set_mode(&mut self, mode, enable_ref, gain_2x)
set_mode(t, mode, enable_ref, gain_2x, r) ==
    LET data == BitOr(BitOr(BitOr(0, Shl(mode, 13)),
                            Shl(AsU16(enable_ref), 12)),
                      Shl(AsU16(gain_2x), 11))
    IN  write(t, WriteControl, data, r)

\* faulty variant of begin: configures, then resets
begin_mode_first(t, r1, r2) ==
    LET s1 == set_mode(t, NormalMode, TRUE, FALSE, r1)
    IN  IF s1.ret # "Ok" THEN s1
        ELSE LET s2 == reset(s1.i2c, r2)
             IN  IF s2.ret # "Ok" THEN s2 ELSE [i2c |-> s2.i2c, ret |-> "Ok"]

\* faulty variant of begin: configures even when the reset failed
begin_no_abort(t, r1, r2) ==
    LET s1 == reset(t, r1)
        s2 == set_mode(s1.i2c, NormalMode, TRUE, FALSE, r2)
    IN  IF s1.ret # "Ok" THEN [i2c |-> s2.i2c, ret |-> s1.ret]
        ELSE IF s2.ret # "Ok" THEN s2 ELSE [i2c |-> s2.i2c, ret |-> "Ok"]

\* pub fn begin(&mut self): reset()?; set_mode(NormalMode, true, false)?; Ok(())
begin(t, r1, r2) ==
    LET s1 == reset(t, r1)
    IN  IF s1.ret # "Ok" THEN s1
        ELSE LET s2 == set_mode(s1.i2c, NormalMode, TRUE, FALSE, r2)
             IN  IF s2.ret # "Ok" THEN s2 ELSE [i2c |-> s2.i2c, ret |-> "Ok"]

(* ---------------------------------------------------------------------- *)
(* State machine: new(), then any sequence of public calls                 *)
(* ---------------------------------------------------------------------- *)

NoCall ==
    [op |-> "none", value |-> 0, mode |-> NormalMode, enable_ref |-> FALSE,
     gain_2x |-> FALSE, start |-> 0, result |-> "Ok"]

\* pub fn new(i2c, addr): stores both, no bus traffic
Init ==
    /\ new_addr \in Addresses
    /\ addr = new_addr
    /\ i2c = [log |-> <<>>, rets |-> <<>>]
    /\ call = NoCall
    /\ failed_before = FALSE

\* The bus at the start of a call: the log so far, no outcome given yet.
AtCall == [log |-> i2c.log, rets |-> <<>>]

\* TRUE iff one of the writes of the call that just ended failed
LastCallFailed == \E i \in DOMAIN i2c.rets : i2c.rets[i] # "Ok"

\* What every call leaves behind: the transport after the method, the
\* record of the call, the unchanged driver fields.
Called(s, name, value, mode, enable_ref, gain_2x) ==
    /\ i2c' = s.i2c
    /\ call' = [op |-> name, value |-> value, mode |-> mode,
                enable_ref |-> enable_ref, gain_2x |-> gain_2x,
                start |-> Len(i2c.log), result |-> s.ret]
    /\ failed_before' = (failed_before \/ LastCallFailed)
    /\ UNCHANGED <<addr, new_addr>>

Begin ==
    /\ Len(i2c.log) < MaxWrites
    /\ \E r1 \in Outcomes, r2 \in Outcomes :
          Called(begin(AtCall, r1, r2), "begin", 0, NormalMode, FALSE, FALSE)

WriteDac ==
    /\ Len(i2c.log) < MaxWrites
    /\ \E value \in Values, r \in Outcomes :
          Called(write_dac(AtCall, value, r), "write_dac",
                 value, NormalMode, FALSE, FALSE)

UpdateDac ==
    /\ Len(i2c.log) < MaxWrites
    /\ \E r \in Outcomes :
          Called(update_dac(AtCall, r), "update_dac",
                 0, NormalMode, FALSE, FALSE)

WriteUpdateDac ==
    /\ Len(i2c.log) < MaxWrites
    /\ \E value \in Values, r \in Outcomes :
          Called(write_update_dac(AtCall, value, r), "write_update_dac",
                 value, NormalMode, FALSE, FALSE)

Reset ==
    /\ Len(i2c.log) < MaxWrites
    /\ \E r \in Outcomes :
          Called(reset(AtCall, r), "reset", 0, NormalMode, FALSE, FALSE)

SetMode ==
    /\ Len(i2c.log) < MaxWrites
    /\ \E mode \in OperatingMode, enable_ref \in BOOLEAN,
          gain_2x \in BOOLEAN, r \in Outcomes :
          Called(set_mode(AtCall, mode, enable_ref, gain_2x, r), "set_mode",
                 0, mode, enable_ref, gain_2x)

Next ==
    \/ Begin
    \/ WriteDac
    \/ UpdateDac
    \/ WriteUpdateDac
    \/ Reset
    \/ SetMode

Spec == Init /\ [][Next]_vars

(* ---------------------------------------------------------------------- *)
(* Observations of the last call                                           *)
(* ---------------------------------------------------------------------- *)

\* The frames the last call put on the bus, oldest first.
CallFrames ==
    [i \in 1..(Len(i2c.log) - call.start) |-> i2c.log[call.start + i].bytes]

\* Number of transport writes of the last call.
CallWrites == Len(i2c.log) - call.start

\* The 16-bit payload carried by a frame.
Payload(frame) == frame[2] * 256 + frame[3]

TypeOK ==
    /\ addr \in 0..255
    /\ new_addr \in Addresses
    /\ Len(i2c.log) <= MaxWrites + 1
    /\ Len(i2c.rets) = CallWrites
    /\ \A i \in DOMAIN i2c.rets : i2c.rets[i] \in Outcomes
    /\ call.result \in Outcomes
    /\ failed_before \in BOOLEAN

(* ---------------------------------------------------------------------- *)
(* Properties                                                              *)
(* ---------------------------------------------------------------------- *)

ResetFrame == <<64, 128, 0>>
ConfigureFrame == <<64, 16, 0>>

\* C1: begin writes the reset frame [0x40,0x80,0x00] first; when that write
\* succeeds it then writes the configure frame [0x40,0x10,0x00] and nothing
\* else; when that write fails begin returns its error and the configure
\* frame is never written.
C1_BeginResetThenConfigure ==
    call.op = "begin" =>
        /\ CallWrites >= 1
        /\ CallFrames[1] = ResetFrame
        /\ i2c.rets[1] = "Ok" => CallFrames = <<ResetFrame, ConfigureFrame>>
        /\ i2c.rets[1] # "Ok" =>
              /\ CallFrames = <<ResetFrame>>
              /\ call.result = i2c.rets[1]

\* C1 witness: a begin whose reset succeeded and whose configure was sent,
\* after an earlier call
C1_Witness ==
    /\ call.op = "begin"
    /\ call.start >= 1
    /\ CallWrites = 2
    /\ i2c.rets[1] = "Ok"

\* C2: set_mode writes the single frame [0x40, high(p), low(p)] with
\* p = mode*2^13 + enable_ref*2^12 + gain_2x*2^11; bit 15 and bits 10..0 of
\* the payload on the bus are zero; (NormalMode, true, false) gives 0x1000.
C2_SetModePayload ==
    call.op = "set_mode" =>
        LET p == call.mode * 8192 + AsU16(call.enable_ref) * 4096
                 + AsU16(call.gain_2x) * 2048
        IN  /\ CallFrames = << <<64, p \div 256, p % 256>> >>
            /\ Bit(Payload(CallFrames[1]), 15) = 0
            /\ Payload(CallFrames[1]) % 2048 = 0
            /\ (call.mode = NormalMode /\ call.enable_ref /\ ~call.gain_2x)
                  => Payload(CallFrames[1]) = 4096

\* C2 witness: set_mode(OutputTristate, true, true) has been called
C2_Witness ==
    /\ call.op = "set_mode"
    /\ call.mode = OutputTristate
    /\ call.enable_ref
    /\ call.gain_2x
    /\ CallWrites = 1

\* C3: when a transport write of a public call fails with error e, the call
\* returns exactly e, and it makes no further write (no retry); reset too.
C3_ErrorReturnedUnchanged ==
    call.op # "none" =>
        \A i \in DOMAIN i2c.rets :
            i2c.rets[i] # "Ok" =>
                /\ call.result = i2c.rets[i]
                /\ i = Len(i2c.rets)

\* C3 witness: a reset whose write failed with ArbitrationLoss, after an
\* earlier call
C3_Witness ==
    /\ call.op = "reset"
    /\ call.start >= 1
    /\ i2c.rets = <<"ArbitrationLoss">>

\* C4 as stated: no call makes more than one write, except begin, which
\* makes exactly two.
C4_Original ==
    call.op # "none" =>
        IF call.op = "begin" THEN CallWrites = 2 ELSE CallWrites <= 1

\* C4 amended: no call makes more than one write, except begin, which makes
\* exactly two when its first write succeeds and exactly one when its first
\* write fails.
C4_WritesPerCall ==
    call.op # "none" =>
        IF call.op = "begin"
        THEN CallWrites = (IF i2c.rets[1] = "Ok" THEN 2 ELSE 1)
        ELSE CallWrites <= 1

\* C4 witness: a begin whose first write failed
C4_Witness ==
    /\ call.op = "begin"
    /\ i2c.rets[1] # "Ok"

\* C5 as stated: every public call makes exactly one transport write attempt.
C5_Original == call.op # "none" => CallWrites = 1

\* C5 amended: every public call other than begin makes exactly one
\* transport write attempt; begin makes one or two; in no call is a write
\* attempted after a failed one, and no frame is sent twice.
C5_OneAttemptNoRetry ==
    call.op # "none" =>
        /\ call.op # "begin" => CallWrites = 1
        /\ call.op = "begin" => CallWrites \in {1, 2}
        /\ \A i \in DOMAIN i2c.rets : i < Len(i2c.rets) => i2c.rets[i] = "Ok"
        /\ \A i, j \in DOMAIN CallFrames :
              i # j => CallFrames[i] # CallFrames[j]

\* C5 witness: a begin that made two attempts, the second of which failed
C5_Witness ==
    /\ call.op = "begin"
    /\ CallWrites = 2
    /\ i2c.rets[2] # "Ok"

\* C6: write_dac(v) writes exactly the one frame [0x10, v div 256, v mod 256]
\* and no UpdateDAC (0x20) or WriteDACAndInput (0x30) frame.
C6_WriteDacFrame ==
    call.op = "write_dac" =>
        /\ CallFrames = << <<16, call.value \div 256, call.value % 256>> >>
        /\ \A i \in DOMAIN CallFrames : CallFrames[i][1] \notin {32, 48}

\* C6 witness: write_dac(0x12AB) has been called
C6_Witness ==
    /\ call.op = "write_dac"
    /\ call.value = 4779
    /\ CallWrites = 1

\* C7: write_update_dac(v) writes exactly one frame,
\* [0x30, v div 256, v mod 256].
C7_WriteUpdateDacFrame ==
    call.op = "write_update_dac" =>
        CallFrames = << <<48, call.value \div 256, call.value % 256>> >>

\* C7 witness: write_update_dac(0x12AB) has been called and its write
\* succeeded
C7_Witness ==
    /\ call.op = "write_update_dac"
    /\ call.value = 4779
    /\ call.result = "Ok"

\* C8: update_dac writes exactly [0x20, 0x00, 0x00], whatever was called
\* before and whatever the results were.
C8_UpdateDacFrame ==
    call.op = "update_dac" => CallFrames = << <<32, 0, 0>> >>

\* C8 witness: update_dac after a failed call that carried a non-zero
\* payload
C8_Witness ==
    /\ call.op = "update_dac"
    /\ call.start >= 1
    /\ failed_before
    /\ Payload(i2c.log[call.start].bytes) # 0

\* C9: reset writes exactly one frame, [0x40, 0x80, 0x00]: payload 0x8000,
\* the reset bit alone.
C9_ResetFrame ==
    call.op = "reset" =>
        /\ CallFrames = << ResetFrame >>
        /\ Payload(CallFrames[1]) = 32768
        /\ Bit(Payload(CallFrames[1]), 15) = 1
        /\ Payload(CallFrames[1]) % 32768 = 0

\* C9 witness: reset has been called and its write succeeded
C9_Witness ==
    /\ call.op = "reset"
    /\ call.result = "Ok"
    /\ CallWrites = 1

\* C10: every write on the bus is 3 bytes long and addressed to the address
\* given to new, and the stored address is still that address.
C10_ThreeBytesToAddr ==
    /\ addr = new_addr
    /\ \A i \in DOMAIN i2c.log :
          /\ Len(i2c.log[i].bytes) = 3
          /\ i2c.log[i].addr = new_addr

\* C10 witness: a write was made after an earlier call failed, on a driver
\* built with a non-default address
C10_Witness ==
    /\ failed_before
    /\ CallWrites >= 1
    /\ Len(i2c.log) >= 2
    /\ new_addr = 78

====
